---- MODULE Spec2Model ----
(***************************************************************************)
(* ERP core backend: inventory, procurement and sales route handlers over  *)
(* a relational store.  Every table is an append-only sequence whose index *)
(* is the row's primary key (the handlers never delete a row); every       *)
(* handler is one action that runs from its first query to its commit or   *)
(* to the HTTPException that ends it.  Where requests run concurrently, a   *)
(* request is three steps: its queries, its guards, its commit.            *)
(***************************************************************************)
EXTENDS Integers, Sequences, FiniteSets, TLC

VARIABLES
    items,      \* stock_items       : <<[item_qty]>>
    suppliers,  \* suppliers         : <<[account_balance]>>
    pos,        \* purchase_orders   : <<[supplier_id, item_id, qty_ordered, final_price_per_item, po_status]>>
    acks,       \* acknowledgements  : <<[po_id, final_price_per_item, status, is_final, version]>>
    inbound,    \* delivery_inbound  : <<[po_id, status]>>
    bills,      \* bills             : <<[po_id, ack_id, payment_status, payment_reference]>>
    clients,    \* clients           : <<[account_balance]>>
    quotes,     \* quotes            : <<[client_id, item_id, order_qty, final_price_per_item, status, version, is_final, superseded_by, root]>>
    orders,     \* sales_orders      : <<[client_id, quote_id, item_id, qty_ordered, final_price_per_item, order_status, invoice_id]>>
    outbound,   \* delivery_outbound : <<[so_id, delivered_qty, status]>>
    invoices,   \* invoices          : <<[so_id, quote_id, payment_status, voided]>>
    resp,       \* HTTP status of the last request answered (0: none yet)
    lim,        \* table sizes the exploration stops at (never changes)
    txs         \* requests in flight, when requests run concurrently: <<[op, target, pc, seen, resp]>>

tables == <<items, suppliers, pos, acks, inbound, bills,
            clients, quotes, orders, outbound, invoices>>
procTables == <<suppliers, pos, acks, inbound, bills>>
salesTables == <<clients, quotes, orders, outbound, invoices>>
vars == <<items, suppliers, pos, acks, inbound, bills,
          clients, quotes, orders, outbound, invoices, resp, lim, txs>>

\* ---------------------------------------------------------------- bounds
\* Rows a table may hold before the handler that inserts into it is no
\* longer explored, per specification.
ProcMaxPOs == 2         \* SpecProc: purchase_orders
ProcMaxAcks == 2        \* SpecProc: acknowledgements
QuoteMaxQuotes == 4     \* SpecQuotes: quotes
QuoteMaxOrders == 3     \* SpecQuotes: sales_orders
OrderMaxOrders == 3     \* SpecOrders: sales_orders
OrderMaxDeliveries == 3 \* SpecOrders: delivery_outbound
CancelMaxOrders == 2    \* SpecCancel: sales_orders
CancelMaxDeliveries == 2 \* SpecCancel: delivery_outbound
InvMaxOrders == 2       \* SpecInvoices: sales_orders
InvMaxDeliveries == 2   \* SpecInvoices: delivery_outbound
StockMaxOrders == 2     \* SpecStock: sales_orders
AcceptMaxQuotes == 3    \* SpecAccept: quotes
AcceptMaxOrders == 2    \* SpecAccept: sales_orders
RecvMaxPOs == 2         \* SpecReceive: purchase_orders
RecvMaxAcks == 2        \* SpecReceive: acknowledgements
ConcMaxRequests == 2    \* SpecConcurrent: requests
BillMaxPOs == 2         \* SpecBills: purchase orders
BillMaxAcks == 2        \* SpecBills: acknowledgements
MaxStock == 4           \* item_qty above which stock is no longer increased

\* ------------------------------------------------------- request inputs
\* Python None: a primary key not yet assigned by a flush, a nullable column.
NoId == 0
NoPrice == 0

InitQtys == {0, 3}          \* ItemCreate.item_qty, conint(ge=0)
AdjustQtys == {1, 3}        \* StockAdjustmentCreate.quantity, conint(gt=0)
POQtys == {2}               \* PurchaseOrderCreate.qty_ordered, conint(gt=0)
POPrices == {4}             \* PurchaseOrderCreate.expected_price_per_item
AckPrices == {NoPrice, 3}   \* POAcknowledgeRequest.final_price_per_item, Optional
QuoteQtys == {1, 2}         \* QuoteCreate.order_qty, conint(gt=0)
QuotePrices == {2}          \* QuoteCreate.final_price_per_item
RevisedPrices == {1}        \* QuoteReviseRequest.revised_price_per_item
OrderQtys == {1, 2}         \* SalesOrderCreate.qty_ordered
OrderPrices == {2}          \* SalesOrderCreate.final_price_per_item
DeliverQtys == {1, 2}       \* DeliveryOutboundRequest.delivered_qty, conint(gt=0)

\* --------------------------------------------------------------- helpers
Max(S) == CHOOSE x \in S : \A y \in S : y <= x

Exists(table, id) == id \in 1..Len(table)

\* raise HTTPException(status_code=code): the session is closed uncommitted.
Fail(code) == /\ resp' = code
              /\ UNCHANGED <<tables, lim, txs>>

\* ------------------------------------------------------------- inventory
create_inventory_item(item_qty) ==
    /\ Len(items) < lim.items
    /\ items' = Append(items, [item_qty |-> item_qty])
    /\ resp' = 200
    /\ UNCHANGED <<procTables, salesTables, lim, txs>>

\* mutant: the adjustment type is ignored and every quantity is added
AdjustDelta_Unsigned(adjustment_type, quantity) == quantity

AdjustDelta(adjustment_type, quantity) ==
    IF adjustment_type = "increase" THEN quantity ELSE -quantity

NegativeInventory(new_qty) == new_qty < 0

adjust_inventory_item(item_id, adjustment_type, quantity) ==
    IF ~Exists(items, item_id) THEN Fail(404)
    ELSE LET current_qty == items[item_id].item_qty
             delta == AdjustDelta(adjustment_type, quantity)
             new_qty == current_qty + delta
         IN IF NegativeInventory(new_qty) THEN Fail(400)
            ELSE /\ new_qty <= MaxStock
                 /\ items' = [items EXCEPT ![item_id].item_qty = new_qty]
                 /\ resp' = 200
                 /\ UNCHANGED <<procTables, salesTables, lim, txs>>

\* ----------------------------------------------------------- procurement
create_supplier ==
    /\ Len(suppliers) < lim.suppliers
    /\ suppliers' = Append(suppliers, [account_balance |-> 0])
    /\ resp' = 200
    /\ UNCHANGED <<items, pos, acks, inbound, bills, salesTables, lim, txs>>

create_po(supplier_id, item_id, qty_ordered, expected_price_per_item) ==
    IF ~Exists(suppliers, supplier_id) THEN Fail(400)
    ELSE IF ~Exists(items, item_id) THEN Fail(400)
    ELSE /\ Len(pos) < lim.pos
         /\ pos' = Append(pos, [supplier_id |-> supplier_id,
                                item_id |-> item_id,
                                qty_ordered |-> qty_ordered,
                                final_price_per_item |-> expected_price_per_item,
                                po_status |-> "pending_price_negotiation"])
         /\ resp' = 200
         /\ UNCHANGED <<items, suppliers, acks, inbound, bills, salesTables, lim, txs>>

AcksOf(po_id) == {i \in 1..Len(acks) : acks[i].po_id = po_id}

\* mutant: the state guard is missing
Negotiable_Unchecked(po) == TRUE

\* mutant: only a received PO is refused
Negotiable_NotReceived(po) == po.po_status # "received"

Negotiable(po) == po.po_status = "pending_price_negotiation"

\* mutant: the latest version is reused instead of incremented
NextVersion_NoIncrement(po_id) ==
    IF {i \in 1..Len(acks) : acks[i].po_id = po_id} = {} THEN 1
    ELSE Max({acks[i].version : i \in {j \in 1..Len(acks) : acks[j].po_id = po_id}})

\* last_ack = ... order_by(version.desc()).first(); 1 if not last_ack else version + 1
NextVersion(po_id) ==
    IF AcksOf(po_id) = {} THEN 1
    ELSE Max({acks[i].version : i \in AcksOf(po_id)}) + 1

\* filter(po_id == po_id, ack_id != ack.ack_id): ack is not flushed yet, its
\* ack_id is None, and "ack_id != None" selects every stored row of the PO.
SupersedeFilter(i, po_id, new_ack_id) ==
    acks[i].po_id = po_id /\ i # new_ack_id

SupersedePrevious(po_id, new_ack_id) ==
    [i \in 1..Len(acks) |->
        IF SupersedeFilter(i, po_id, new_ack_id)
        THEN [acks[i] EXCEPT !.status = "superseded", !.is_final = FALSE]
        ELSE acks[i]]

\* the status and is_final the new Acknowledgement row is inserted with
NewAck(po_id, action, price, version) ==
    [po_id |-> po_id,
     final_price_per_item |-> price,
     status |-> CASE action = "accepted" -> "accepted"
                  [] action = "rejected" -> "rejected"
                  [] OTHER -> "proposed",
     is_final |-> (action = "accepted"),
     version |-> version]

acknowledge_po(po_id, action, price) ==
    IF ~Exists(pos, po_id) THEN Fail(404)
    ELSE IF ~Negotiable(pos[po_id]) THEN Fail(400)
    ELSE IF action \notin {"accepted", "rejected", "revised"} THEN Fail(400)
    ELSE LET ack == NewAck(po_id, action, price, NextVersion(po_id))
         IN /\ Len(acks) < lim.acks
            /\ IF action = "accepted"
               THEN /\ acks' = Append(SupersedePrevious(po_id, NoId), ack)
                    /\ pos' = [pos EXCEPT ![po_id].final_price_per_item = price,
                                          ![po_id].po_status = "acknowledged"]
                    /\ inbound' = Append(inbound, [po_id |-> po_id,
                                                   status |-> "in_transit"])
               ELSE /\ acks' = Append(acks, ack)
                    /\ UNCHANGED <<pos, inbound>>
            /\ resp' = 200
            /\ UNCHANGED <<items, suppliers, bills, salesTables, lim, txs>>

\* mutant: goods are taken in for any PO not yet received
Receivable_NotReceived(po) == po.po_status # "received"

Receivable(po) == po.po_status = "acknowledged"

AlreadyReceived(po_id) ==
    \E d \in 1..Len(inbound) :
        inbound[d].po_id = po_id /\ inbound[d].status = "received"

receive_po(po_id) ==
    IF ~Exists(pos, po_id) THEN Fail(404)
    ELSE IF ~Receivable(pos[po_id]) THEN Fail(400)
    ELSE IF ~Exists(items, pos[po_id].item_id) THEN Fail(404)
    ELSE IF AlreadyReceived(po_id) THEN Fail(400)
    ELSE LET po == pos[po_id] IN
         /\ items[po.item_id].item_qty + po.qty_ordered <= MaxStock
         /\ inbound' = Append(inbound, [po_id |-> po_id, status |-> "received"])
         /\ items' = [items EXCEPT ![po.item_id].item_qty = @ + po.qty_ordered]
         /\ pos' = [pos EXCEPT ![po_id].po_status = "received"]
         /\ resp' = 200
         /\ UNCHANGED <<suppliers, acks, bills, salesTables, lim, txs>>

\* mutant: a bill may be created as soon as the PO is acknowledged
Billable_Acknowledged(po) == po.po_status \in {"acknowledged", "received"}

Billable(po) == po.po_status = "received"

BillsOf(po_id) == {b \in 1..Len(bills) : bills[b].po_id = po_id}

ExistingBill(po_id) == BillsOf(po_id) # {}

FinalAcks(po_id) == {i \in AcksOf(po_id) : acks[i].is_final}

\* mutant: the quantity is left out of the amount
BillAmount_PriceOnly(po, ack) == ack.final_price_per_item

\* po.qty_ordered * final_ack.final_price_per_item
BillAmount(po, ack) == po.qty_ordered * ack.final_price_per_item

\* The commit persists the bill; BillResponse.payment_reference is a required
\* str and the new row holds None, so serialising the response fails (500).
create_bill(po_id) ==
    IF ~Exists(pos, po_id) THEN Fail(404)
    ELSE IF ~Billable(pos[po_id]) THEN Fail(400)
    ELSE IF ExistingBill(po_id) THEN Fail(400)
    ELSE IF FinalAcks(po_id) = {} THEN Fail(400)
    ELSE \E final_ack \in FinalAcks(po_id) :
         LET po == pos[po_id] IN
         IF ~Exists(suppliers, po.supplier_id) THEN Fail(404)
         ELSE IF acks[final_ack].final_price_per_item = NoPrice
         THEN Fail(500)     \* int * None: TypeError, nothing committed
         ELSE /\ bills' = Append(bills, [po_id |-> po_id,
                                         ack_id |-> final_ack,
                                         payment_status |-> "pending",
                                         payment_reference |-> "None"])
              /\ suppliers' = [suppliers EXCEPT ![po.supplier_id].account_balance =
                                   @ + BillAmount(po, acks[final_ack])]
              /\ resp' = 500
              /\ UNCHANGED <<items, pos, acks, inbound, salesTables, lim, txs>>

\* mutant: the status is compared with a string no bill ever holds
AlreadyPaid_WrongCase(bill) == bill.payment_status = "Paid"

AlreadyPaid(bill) == bill.payment_status = "paid"

\* mutant: the bill is marked paid and the supplier's balance is left alone
pay_bill_NoDebit(bill_id, payment_reference) ==
    IF ~Exists(bills, bill_id) THEN Fail(404)
    ELSE IF AlreadyPaid(bills[bill_id]) THEN Fail(400)
    ELSE /\ bills' = [bills EXCEPT ![bill_id].payment_status = "paid",
                                   ![bill_id].payment_reference = payment_reference]
         /\ resp' = 200
         /\ UNCHANGED <<items, suppliers, pos, acks, inbound, salesTables, lim, txs>>

pay_bill(bill_id, payment_reference) ==
    IF ~Exists(bills, bill_id) THEN Fail(404)
    ELSE IF AlreadyPaid(bills[bill_id]) THEN Fail(400)
    ELSE LET bill == bills[bill_id]
             po == pos[bill.po_id]
             final_ack == acks[bill.ack_id]
         IN /\ bills' = [bills EXCEPT ![bill_id].payment_status = "paid",
                                      ![bill_id].payment_reference = payment_reference]
            /\ suppliers' = [suppliers EXCEPT ![po.supplier_id].account_balance =
                                 @ - BillAmount(po, final_ack)]
            /\ resp' = 200
            /\ UNCHANGED <<items, pos, acks, inbound, salesTables, lim, txs>>

\* ----------------------------------------------------------------- sales
create_client ==
    /\ Len(clients) < lim.clients
    /\ clients' = Append(clients, [account_balance |-> 0])
    /\ resp' = 200
    /\ UNCHANGED <<items, procTables, quotes, orders, outbound, invoices, lim, txs>>

\* Quote(**payload.dict()): the column defaults fill status, version, is_final.
\* client_id and item_id are foreign keys: the commit of a row naming a client
\* or an item that is not stored raises IntegrityError (500).  root is a ghost
\* field: the quote_id of the create_quote this quote descends from.
create_quote(client_id, item_id, order_qty, final_price_per_item) ==
    IF ~Exists(clients, client_id) \/ ~Exists(items, item_id) THEN Fail(500)
    ELSE /\ Len(quotes) < lim.quotes
         /\ quotes' = Append(quotes, [client_id |-> client_id,
                                      item_id |-> item_id,
                                      order_qty |-> order_qty,
                                      final_price_per_item |-> final_price_per_item,
                                      status |-> "sent",
                                      version |-> 1,
                                      is_final |-> FALSE,
                                      superseded_by |-> NoId,
                                      root |-> Len(quotes) + 1])
         /\ resp' = 200
         /\ UNCHANGED <<items, procTables, clients, orders, outbound, invoices, lim, txs>>

\* if old.is_final: raise HTTPException(400, ...)
ReviseRefused(old) == old.is_final

\* new is not flushed when old.superseded_by = new.quote_id runs: new.quote_id
\* is still None, and None is what the forward pointer is set to.
revise_quote(quote_id, revised_price_per_item) ==
    IF ~Exists(quotes, quote_id) THEN Fail(404)
    ELSE IF ReviseRefused(quotes[quote_id]) THEN Fail(400)
    ELSE LET old == quotes[quote_id]
             new == [client_id |-> old.client_id,
                     item_id |-> old.item_id,
                     order_qty |-> old.order_qty,
                     final_price_per_item |-> revised_price_per_item,
                     status |-> "revised",
                     version |-> old.version + 1,
                     is_final |-> FALSE,
                     superseded_by |-> NoId,
                     root |-> old.root]
         IN /\ Len(quotes) < lim.quotes
            /\ quotes' = Append([quotes EXCEPT ![quote_id].status = "superseded",
                                               ![quote_id].superseded_by = NoId],
                                new)
            /\ resp' = 200
            /\ UNCHANGED <<items, procTables, clients, orders, outbound, invoices, lim, txs>>

\* if quote.status == "accepted": 400;  if quote.is_final: 400
AcceptRefused(quote) == quote.status = "accepted" \/ quote.is_final

\* mutant: one unit more than is on hand may be reserved
InsufficientInventory_OffByOne(item_id, qty) ==
    ~(item_id \in 1..Len(items)) \/ items[item_id].item_qty + 1 < qty

\* mutant: only a missing item is refused
InsufficientInventory_MissingOnly(item_id, qty) == ~(item_id \in 1..Len(items))

\* if not item or item.item_qty < qty: raise HTTPException(400, "Insufficient inventory")
InsufficientInventory(item_id, qty) ==
    ~Exists(items, item_id) \/ items[item_id].item_qty < qty

\* mutant: the bulk update is not filtered by client and item
SupersedeOthers_AnyPair(quote_id) ==
    [i \in 1..Len(quotes) |->
        IF quotes[i].is_final = FALSE /\ i # quote_id
        THEN [quotes[i] EXCEPT !.status = "superseded"]
        ELSE quotes[i]]

\* the bulk update of accept_quote: every other non-final quote of the same
\* client and item
SupersedeOthers(quote_id) ==
    LET quote == quotes[quote_id] IN
    [i \in 1..Len(quotes) |->
        IF /\ quotes[i].client_id = quote.client_id
           /\ quotes[i].item_id = quote.item_id
           /\ quotes[i].is_final = FALSE
           /\ i # quote_id
        THEN [quotes[i] EXCEPT !.status = "superseded"]
        ELSE quotes[i]]

\* mutant: the client is not charged
ConfirmOrder_NoCharge(client_id, quote_id, item_id, qty_ordered, final_price_per_item) ==
    /\ orders' = Append(orders, [client_id |-> client_id,
                                 quote_id |-> quote_id,
                                 item_id |-> item_id,
                                 qty_ordered |-> qty_ordered,
                                 final_price_per_item |-> final_price_per_item,
                                 order_status |-> "confirmed",
                                 invoice_id |-> Len(invoices) + 1])
    /\ invoices' = Append(invoices, [so_id |-> Len(orders) + 1,
                                     quote_id |-> quote_id,
                                     payment_status |-> "pending",
                                     voided |-> FALSE])
    /\ clients' = clients

\* SalesOrder(...), flush, Invoice(so_id=...), flush, so.invoice_id = ...,
\* client.account_balance += so.qty_ordered * so.final_price_per_item
ConfirmOrder(client_id, quote_id, item_id, qty_ordered, final_price_per_item) ==
    /\ orders' = Append(orders, [client_id |-> client_id,
                                 quote_id |-> quote_id,
                                 item_id |-> item_id,
                                 qty_ordered |-> qty_ordered,
                                 final_price_per_item |-> final_price_per_item,
                                 order_status |-> "confirmed",
                                 invoice_id |-> Len(invoices) + 1])
    /\ invoices' = Append(invoices, [so_id |-> Len(orders) + 1,
                                     quote_id |-> quote_id,
                                     payment_status |-> "pending",
                                     voided |-> FALSE])
    /\ clients' = [clients EXCEPT ![client_id].account_balance =
                       @ + qty_ordered * final_price_per_item]

accept_quote(quote_id) ==
    IF ~Exists(quotes, quote_id) THEN Fail(404)
    ELSE IF AcceptRefused(quotes[quote_id]) THEN Fail(400)
    ELSE IF InsufficientInventory(quotes[quote_id].item_id, quotes[quote_id].order_qty)
    THEN Fail(400)
    ELSE LET quote == quotes[quote_id] IN
         /\ Len(orders) < lim.orders
         /\ quotes' = [SupersedeOthers(quote_id) EXCEPT
                          ![quote_id].is_final = TRUE,
                          ![quote_id].status = "accepted"]
         /\ items' = [items EXCEPT ![quote.item_id].item_qty = @ - quote.order_qty]
         /\ ConfirmOrder(quote.client_id, quote_id, quote.item_id,
                         quote.order_qty, quote.final_price_per_item)
         /\ resp' = 200
         /\ UNCHANGED <<procTables, outbound, lim, txs>>

\* The first flush inserts the order: a client_id that is not stored violates
\* the foreign key (IntegrityError, 500) and nothing is committed.
create_sales_order(client_id, item_id, qty_ordered, final_price_per_item) ==
    IF InsufficientInventory(item_id, qty_ordered) THEN Fail(400)
    ELSE IF ~Exists(clients, client_id) THEN Fail(500)
    ELSE /\ Len(orders) < lim.orders
         /\ items' = [items EXCEPT ![item_id].item_qty = @ - qty_ordered]
         /\ ConfirmOrder(client_id, NoId, item_id, qty_ordered, final_price_per_item)
         /\ resp' = 200
         /\ UNCHANGED <<procTables, quotes, outbound, lim, txs>>

\* coalesce(sum(DeliveryOutbound.delivered_qty), 0) filtered by so_id
RECURSIVE SumDelivered(_, _)
SumDelivered(so_id, n) ==
    IF n = 0 THEN 0
    ELSE (IF outbound[n].so_id = so_id THEN outbound[n].delivered_qty ELSE 0)
         + SumDelivered(so_id, n - 1)

TotalDelivered(so_id) == SumDelivered(so_id, Len(outbound))

DeliverRefused(so) == so.order_status = "cancelled" \/ so.order_status = "delivered"

\* mutant: the quantity being delivered is left out of the comparison
OverDelivery_IgnoresNew(total_delivered, delivered_qty, qty_ordered) ==
    total_delivered > qty_ordered

OverDelivery(total_delivered, delivered_qty, qty_ordered) ==
    total_delivered + delivered_qty > qty_ordered

StatusAfterDelivery(total_delivered, delivered_qty, qty_ordered) ==
    IF total_delivered + delivered_qty < qty_ordered
    THEN "partially_delivered" ELSE "delivered"

deliver_sales_order(so_id, delivered_qty) ==
    IF ~Exists(orders, so_id) THEN Fail(404)
    ELSE IF DeliverRefused(orders[so_id]) THEN Fail(400)
    ELSE LET so == orders[so_id]
             total_delivered == TotalDelivered(so_id)
         IN IF OverDelivery(total_delivered, delivered_qty, so.qty_ordered)
            THEN Fail(400)
            ELSE /\ Len(outbound) < lim.deliveries
                 /\ outbound' = Append(outbound, [so_id |-> so_id,
                                                  delivered_qty |-> delivered_qty,
                                                  status |-> "delivered"])
                 /\ orders' = [orders EXCEPT ![so_id].order_status =
                        StatusAfterDelivery(total_delivered, delivered_qty, so.qty_ordered)]
                 /\ resp' = 200
                 /\ UNCHANGED <<items, procTables, clients, quotes, invoices, lim, txs>>

\* mutant: an order delivered in part may still be cancelled
CancelRefused_DeliveredOnly(so) == so.order_status = "delivered"

CancelRefused(so) == so.order_status \in {"delivered", "partially_delivered"}

\* mutant: the cancelled order is refunded to the client's balance
cancel_sales_order_Refund(so_id) ==
    IF ~Exists(orders, so_id) THEN Fail(404)
    ELSE IF CancelRefused(orders[so_id]) THEN Fail(400)
    ELSE LET so == orders[so_id] IN
         /\ items[so.item_id].item_qty + so.qty_ordered <= MaxStock
         /\ items' = [items EXCEPT ![so.item_id].item_qty = @ + so.qty_ordered]
         /\ orders' = [orders EXCEPT ![so_id].order_status = "cancelled"]
         /\ clients' = [clients EXCEPT ![so.client_id].account_balance =
                            @ - so.qty_ordered * so.final_price_per_item]
         /\ resp' = 200
         /\ UNCHANGED <<procTables, quotes, outbound, invoices, lim, txs>>

cancel_sales_order(so_id) ==
    IF ~Exists(orders, so_id) THEN Fail(404)
    ELSE IF CancelRefused(orders[so_id]) THEN Fail(400)
    ELSE LET so == orders[so_id] IN
         /\ items[so.item_id].item_qty + so.qty_ordered <= MaxStock
         /\ items' = [items EXCEPT ![so.item_id].item_qty = @ + so.qty_ordered]
         /\ orders' = [orders EXCEPT ![so_id].order_status = "cancelled"]
         /\ resp' = 200
         /\ UNCHANGED <<procTables, clients, quotes, outbound, invoices, lim, txs>>

\* mutant: the flag is set and the payment status is left as it was
void_invoice_FlagOnly(invoice_id) ==
    IF ~(invoice_id \in 1..Len(invoices)) THEN Fail(404)
    ELSE /\ invoices' = [invoices EXCEPT ![invoice_id].voided = TRUE]
         /\ resp' = 200
         /\ UNCHANGED <<items, procTables, clients, quotes, orders, outbound, lim, txs>>

void_invoice(invoice_id) ==
    IF ~Exists(invoices, invoice_id) THEN Fail(404)
    ELSE IF invoices[invoice_id].payment_status = "paid" THEN Fail(400)
    ELSE /\ invoices' = [invoices EXCEPT ![invoice_id].voided = TRUE,
                                         ![invoice_id].payment_status = "voided"]
         /\ resp' = 200
         /\ UNCHANGED <<items, procTables, clients, quotes, orders, outbound, lim, txs>>

\* --------------------------------------------------- concurrent requests
\* The handlers are def, not async def: each request runs on its own worker
\* thread with its own Session, and no handler asks for a row lock.  A
\* request in flight is [op, target, arg, qty, pc, seen, resp]: seen holds
\* what its queries returned, and its commit writes the values the handler
\* computed from them.
NoSeen == [qty |-> 0, status |-> "", flag |-> FALSE, total |-> 0]

request(op, target, arg, qty) ==
    /\ Len(txs) < lim.requests
    /\ txs' = Append(txs, [op |-> op, target |-> target, arg |-> arg, qty |-> qty,
                           pc |-> "read", seen |-> NoSeen, resp |-> 0])
    /\ UNCHANGED <<tables, resp, lim>>

\* item = db.query(StockItem)...first(); current_qty = item.item_qty
adjust_inventory_item_seen(tx) ==
    [NoSeen EXCEPT !.qty = items[tx.target].item_qty]

adjust_inventory_item_refused(tx) ==
    NegativeInventory(tx.seen.qty + AdjustDelta(tx.arg, tx.qty))

adjust_inventory_item_commit(tx) ==
    /\ items' = [items EXCEPT ![tx.target].item_qty =
                     tx.seen.qty + AdjustDelta(tx.arg, tx.qty)]
    /\ UNCHANGED <<procTables, salesTables>>

\* po, item and existing_delivery as the three queries of receive_po return
receive_po_seen(tx) ==
    [NoSeen EXCEPT !.status = pos[tx.target].po_status,
                   !.qty = items[pos[tx.target].item_id].item_qty,
                   !.flag = AlreadyReceived(tx.target)]

receive_po_refused(tx) ==
    ~Receivable([po_status |-> tx.seen.status]) \/ tx.seen.flag

receive_po_commit(tx) ==
    LET po == pos[tx.target] IN
    /\ inbound' = Append(inbound, [po_id |-> tx.target, status |-> "received"])
    /\ items' = [items EXCEPT ![po.item_id].item_qty = tx.seen.qty + po.qty_ordered]
    /\ pos' = [pos EXCEPT ![tx.target].po_status = "received"]
    /\ UNCHANGED <<suppliers, acks, bills, salesTables>>

\* po and last_ack (its version, 0 when there is none)
acknowledge_po_seen(tx) ==
    [NoSeen EXCEPT !.status = pos[tx.target].po_status,
                   !.total = NextVersion(tx.target) - 1]

acknowledge_po_refused(tx) == ~Negotiable([po_status |-> tx.seen.status])

\* action accepted: the bulk update runs on the rows stored at that moment
acknowledge_po_commit(tx) ==
    /\ acks' = Append(SupersedePrevious(tx.target, NoId),
                      NewAck(tx.target, "accepted", tx.qty, tx.seen.total + 1))
    /\ pos' = [pos EXCEPT ![tx.target].final_price_per_item = tx.qty,
                          ![tx.target].po_status = "acknowledged"]
    /\ inbound' = Append(inbound, [po_id |-> tx.target, status |-> "in_transit"])
    /\ UNCHANGED <<items, suppliers, bills, salesTables>>

\* bill and supplier (its account_balance)
pay_bill_seen(tx) ==
    [NoSeen EXCEPT !.status = bills[tx.target].payment_status,
                   !.qty = suppliers[pos[bills[tx.target].po_id].supplier_id]
                              .account_balance]

pay_bill_refused(tx) == AlreadyPaid([payment_status |-> tx.seen.status])

pay_bill_commit(tx) ==
    LET bill == bills[tx.target]
        po == pos[bill.po_id]
    IN /\ bills' = [bills EXCEPT ![tx.target].payment_status = "paid",
                                 ![tx.target].payment_reference = tx.arg]
       /\ suppliers' = [suppliers EXCEPT ![po.supplier_id].account_balance =
                            tx.seen.qty - BillAmount(po, acks[bill.ack_id])]
       /\ UNCHANGED <<items, pos, acks, inbound, salesTables>>

create_sales_order_seen(tx) ==
    [NoSeen EXCEPT !.qty = items[tx.target].item_qty]

create_sales_order_refused(tx) == tx.seen.qty < tx.qty

create_sales_order_commit(tx) ==
    /\ items' = [items EXCEPT ![tx.target].item_qty = tx.seen.qty - tx.qty]
    /\ ConfirmOrder(1, NoId, tx.target, tx.qty, Max(OrderPrices))
    /\ UNCHANGED <<procTables, quotes, outbound>>

\* quote and item
accept_quote_seen(tx) ==
    [NoSeen EXCEPT !.status = quotes[tx.target].status,
                   !.flag = quotes[tx.target].is_final,
                   !.qty = items[quotes[tx.target].item_id].item_qty]

accept_quote_refused(tx) ==
    \/ AcceptRefused([status |-> tx.seen.status, is_final |-> tx.seen.flag])
    \/ tx.seen.qty < quotes[tx.target].order_qty

accept_quote_commit(tx) ==
    LET quote == quotes[tx.target] IN
    /\ quotes' = [SupersedeOthers(tx.target) EXCEPT
                     ![tx.target].is_final = TRUE,
                     ![tx.target].status = "accepted"]
    /\ items' = [items EXCEPT ![quote.item_id].item_qty =
                     tx.seen.qty - quote.order_qty]
    /\ ConfirmOrder(quote.client_id, tx.target, quote.item_id,
                    quote.order_qty, quote.final_price_per_item)
    /\ UNCHANGED <<procTables, outbound>>

\* so and total_delivered
deliver_sales_order_seen(tx) ==
    [NoSeen EXCEPT !.status = orders[tx.target].order_status,
                   !.total = TotalDelivered(tx.target)]

deliver_sales_order_refused(tx) ==
    \/ DeliverRefused([order_status |-> tx.seen.status])
    \/ OverDelivery(tx.seen.total, tx.qty, orders[tx.target].qty_ordered)

deliver_sales_order_commit(tx) ==
    /\ outbound' = Append(outbound, [so_id |-> tx.target,
                                     delivered_qty |-> tx.qty,
                                     status |-> "delivered"])
    /\ orders' = [orders EXCEPT ![tx.target].order_status =
           StatusAfterDelivery(tx.seen.total, tx.qty, orders[tx.target].qty_ordered)]
    /\ UNCHANGED <<items, procTables, clients, quotes, invoices>>

\* so and item
cancel_sales_order_seen(tx) ==
    [NoSeen EXCEPT !.status = orders[tx.target].order_status,
                   !.qty = items[orders[tx.target].item_id].item_qty]

cancel_sales_order_refused(tx) == CancelRefused([order_status |-> tx.seen.status])

cancel_sales_order_commit(tx) ==
    LET so == orders[tx.target] IN
    /\ items' = [items EXCEPT ![so.item_id].item_qty = tx.seen.qty + so.qty_ordered]
    /\ orders' = [orders EXCEPT ![tx.target].order_status = "cancelled"]
    /\ UNCHANGED <<procTables, clients, quotes, outbound, invoices>>

Seen(tx) ==
    CASE tx.op = "adjust_inventory_item" -> adjust_inventory_item_seen(tx)
      [] tx.op = "receive_po" -> receive_po_seen(tx)
      [] tx.op = "acknowledge_po" -> acknowledge_po_seen(tx)
      [] tx.op = "pay_bill" -> pay_bill_seen(tx)
      [] tx.op = "create_sales_order" -> create_sales_order_seen(tx)
      [] tx.op = "accept_quote" -> accept_quote_seen(tx)
      [] tx.op = "deliver_sales_order" -> deliver_sales_order_seen(tx)
      [] tx.op = "cancel_sales_order" -> cancel_sales_order_seen(tx)

Refused(tx) ==
    CASE tx.op = "adjust_inventory_item" -> adjust_inventory_item_refused(tx)
      [] tx.op = "receive_po" -> receive_po_refused(tx)
      [] tx.op = "acknowledge_po" -> acknowledge_po_refused(tx)
      [] tx.op = "pay_bill" -> pay_bill_refused(tx)
      [] tx.op = "create_sales_order" -> create_sales_order_refused(tx)
      [] tx.op = "accept_quote" -> accept_quote_refused(tx)
      [] tx.op = "deliver_sales_order" -> deliver_sales_order_refused(tx)
      [] tx.op = "cancel_sales_order" -> cancel_sales_order_refused(tx)

Commit(tx) ==
    \/ tx.op = "adjust_inventory_item" /\ adjust_inventory_item_commit(tx)
    \/ tx.op = "receive_po" /\ receive_po_commit(tx)
    \/ tx.op = "acknowledge_po" /\ acknowledge_po_commit(tx)
    \/ tx.op = "pay_bill" /\ pay_bill_commit(tx)
    \/ tx.op = "create_sales_order" /\ create_sales_order_commit(tx)
    \/ tx.op = "accept_quote" /\ accept_quote_commit(tx)
    \/ tx.op = "deliver_sales_order" /\ deliver_sales_order_commit(tx)
    \/ tx.op = "cancel_sales_order" /\ cancel_sales_order_commit(tx)

\* The store lets every request that reached its commit commit: it holds no
\* lock the handlers did not ask for and compares no row version.
Committable(r) == txs[r].pc = "write"

\* the queries of the handler
tx_read(r) ==
    /\ txs[r].pc = "read"
    /\ txs' = [txs EXCEPT ![r].seen = Seen(txs[r]), ![r].pc = "check"]
    /\ UNCHANGED <<tables, resp, lim>>

\* the guards of the handler, on what the queries returned
tx_check(r) ==
    /\ txs[r].pc = "check"
    /\ IF Refused(txs[r])
       THEN /\ txs' = [txs EXCEPT ![r].pc = "done", ![r].resp = 400]
            /\ resp' = 400
       ELSE /\ txs' = [txs EXCEPT ![r].pc = "write"]
            /\ UNCHANGED resp
    /\ UNCHANGED <<tables, lim>>

\* db.commit(): the UPDATEs carry the values computed from what was read
tx_write(r) ==
    /\ Committable(r)
    /\ Commit(txs[r])
    /\ txs' = [txs EXCEPT ![r].pc = "done", ![r].resp = 200]
    /\ resp' = 200
    /\ UNCHANGED lim

\* what the request read is no longer what the tables hold
Conflict(r) == Seen(txs[r]) # txs[r].seen

\* an engine set to serialise transactions fails the commit of a request
\* whose reads are stale: the handler catches nothing, the request is
\* answered 500 and writes nothing.  The handlers ask for no row lock and the
\* models carry no version column, so the engine's own isolation level is
\* all that decides between tx_write and tx_abort.
tx_abort(r) ==
    /\ Committable(r)
    /\ Conflict(r)
    /\ txs' = [txs EXCEPT ![r].pc = "done", ![r].resp = 500]
    /\ resp' = 500
    /\ UNCHANGED <<tables, lim>>

\* ------------------------------------------------------------------ Init
\* The store as the schema creates it: every table empty.
EmptyStore ==
    /\ items = <<>> /\ suppliers = <<>> /\ pos = <<>> /\ acks = <<>>
    /\ inbound = <<>> /\ bills = <<>> /\ clients = <<>> /\ quotes = <<>>
    /\ orders = <<>> /\ outbound = <<>> /\ invoices = <<>>
    /\ resp = 0
    /\ txs = <<>>

\* The identities a request names: every stored row's and, where the
\* specification asks for it, one that is not stored.
Ids(table) == 1..(Len(table) + lim.unknown)

AckActions == IF lim.unknown = 1
              THEN {"accepted", "rejected", "revised", "approved"}
              ELSE {"accepted", "rejected", "revised"}

\* Procurement: a purchase order from negotiation to the paid bill.  The item
\* starts without stock, so every unit in store came in with a received PO.
InitProc ==
    /\ EmptyStore
    /\ lim = [items |-> 1, suppliers |-> 1, clients |-> 0,
              pos |-> ProcMaxPOs, acks |-> ProcMaxAcks,
              quotes |-> 0, orders |-> 0, deliveries |-> 0, requests |-> 0, unknown |-> 0]

NextProc ==
    \/ create_inventory_item(0)
    \/ create_supplier
    \/ \E s \in Ids(suppliers), i \in Ids(items), q \in POQtys, p \in POPrices :
          create_po(s, i, q, p)
    \/ \E po \in Ids(pos), a \in AckActions, p \in AckPrices :
          acknowledge_po(po, a, p)
    \/ \E po \in Ids(pos) : receive_po(po)
    \/ \E po \in Ids(pos) : create_bill(po)
    \/ \E b \in Ids(bills) : pay_bill(b, "ref")

SpecProc == InitProc /\ [][NextProc]_vars

\* Receipt of goods: purchase orders for two items, up to their receipt.
\* Two suppliers, their purchase orders and bills.
InitBills ==
    /\ EmptyStore
    /\ lim = [items |-> 1, suppliers |-> 2, clients |-> 0,
              pos |-> BillMaxPOs, acks |-> BillMaxAcks,
              quotes |-> 0, orders |-> 0, deliveries |-> 0, requests |-> 0, unknown |-> 0]

NextBills ==
    \/ create_inventory_item(0)
    \/ create_supplier
    \/ \E s \in Ids(suppliers), i \in Ids(items), q \in POQtys, p \in POPrices :
          create_po(s, i, q, p)
    \/ \E po \in Ids(pos), p \in AckPrices : acknowledge_po(po, "accepted", p)
    \/ \E po \in Ids(pos) : receive_po(po)
    \/ \E po \in Ids(pos) : create_bill(po)
    \/ \E b \in Ids(bills) : pay_bill(b, "ref")

SpecBills == InitBills /\ [][NextBills]_vars

InitReceive ==
    /\ EmptyStore
    /\ lim = [items |-> 2, suppliers |-> 1, clients |-> 0,
              pos |-> RecvMaxPOs, acks |-> RecvMaxAcks,
              quotes |-> 0, orders |-> 0, deliveries |-> 0, requests |-> 0, unknown |-> 0]

NextReceive ==
    \/ create_inventory_item(0)
    \/ create_supplier
    \/ \E s \in Ids(suppliers), i \in Ids(items), q \in POQtys, p \in POPrices :
          create_po(s, i, q, p)
    \/ \E po \in Ids(pos), a \in AckActions, p \in AckPrices :
          acknowledge_po(po, a, p)
    \/ \E po \in Ids(pos) : receive_po(po)

SpecReceive == InitReceive /\ [][NextReceive]_vars

\* Quote negotiation: create, revise, accept.
InitQuotes ==
    /\ EmptyStore
    /\ lim = [items |-> 1, suppliers |-> 0, clients |-> 1, pos |-> 0, acks |-> 0,
              quotes |-> QuoteMaxQuotes, orders |-> QuoteMaxOrders,
              deliveries |-> 0, requests |-> 0, unknown |-> 0]

NextQuotes ==
    \/ \E q \in InitQtys : create_inventory_item(q)
    \/ create_client
    \/ \E c \in Ids(clients), i \in Ids(items), q \in QuoteQtys, p \in QuotePrices :
          create_quote(c, i, q, p)
    \/ \E qt \in Ids(quotes), p \in RevisedPrices : revise_quote(qt, p)
    \/ \E qt \in Ids(quotes) : accept_quote(qt)

SpecQuotes == InitQuotes /\ [][NextQuotes]_vars

\* Acceptance: quotes of one client for two items, each item stocked with 3.
InitAccept ==
    /\ EmptyStore
    /\ lim = [items |-> 2, suppliers |-> 0, clients |-> 1, pos |-> 0, acks |-> 0,
              quotes |-> AcceptMaxQuotes, orders |-> AcceptMaxOrders,
              deliveries |-> 0, requests |-> 0, unknown |-> 0]

NextAccept ==
    \/ create_inventory_item(3)
    \/ create_client
    \/ \E c \in Ids(clients), i \in Ids(items), q \in QuoteQtys, p \in QuotePrices :
          create_quote(c, i, q, p)
    \/ \E qt \in Ids(quotes), p \in RevisedPrices : revise_quote(qt, p)
    \/ \E qt \in Ids(quotes) : accept_quote(qt)

SpecAccept == InitAccept /\ [][NextAccept]_vars

\* Fulfilment: a sales order from confirmation to delivery or cancellation.
InitOrders ==
    /\ EmptyStore
    /\ lim = [items |-> 1, suppliers |-> 0, clients |-> 1, pos |-> 0, acks |-> 0,
              quotes |-> 0, orders |-> OrderMaxOrders,
              deliveries |-> OrderMaxDeliveries, requests |-> 0, unknown |-> 0]

NextOrders ==
    \/ \E q \in InitQtys : create_inventory_item(q)
    \/ create_client
    \/ \E c \in Ids(clients), i \in Ids(items), q \in OrderQtys, p \in OrderPrices :
          create_sales_order(c, i, q, p)
    \/ \E so \in Ids(orders), q \in DeliverQtys : deliver_sales_order(so, q)
    \/ \E so \in Ids(orders) : cancel_sales_order(so)
    \/ \E inv \in Ids(invoices) : void_invoice(inv)

SpecOrders == InitOrders /\ [][NextOrders]_vars

\* Cancellation: orders for two items, each stocked with 3, delivered or
\* cancelled.
InitCancel ==
    /\ EmptyStore
    /\ lim = [items |-> 2, suppliers |-> 0, clients |-> 1, pos |-> 0, acks |-> 0,
              quotes |-> 0, orders |-> CancelMaxOrders,
              deliveries |-> CancelMaxDeliveries, requests |-> 0, unknown |-> 0]

NextCancel ==
    \/ create_inventory_item(3)
    \/ create_client
    \/ \E c \in Ids(clients), i \in Ids(items), q \in OrderQtys, p \in OrderPrices :
          create_sales_order(c, i, q, p)
    \/ \E so \in Ids(orders), q \in DeliverQtys : deliver_sales_order(so, q)
    \/ \E so \in Ids(orders) : cancel_sales_order(so)

SpecCancel == InitCancel /\ [][NextCancel]_vars

\* Invoicing: direct orders of two clients on one item stocked with 3; the
\* orders are delivered or cancelled, the invoices voided.
InitInvoices ==
    /\ EmptyStore
    /\ lim = [items |-> 1, suppliers |-> 0, clients |-> 2, pos |-> 0, acks |-> 0,
              quotes |-> 0, orders |-> InvMaxOrders,
              deliveries |-> InvMaxDeliveries, requests |-> 0, unknown |-> 0]

NextInvoices ==
    \/ create_inventory_item(3)
    \/ create_client
    \/ \E c \in Ids(clients), i \in Ids(items), q \in OrderQtys, p \in OrderPrices :
          create_sales_order(c, i, q, p)
    \/ \E so \in Ids(orders), q \in DeliverQtys : deliver_sales_order(so, q)
    \/ \E so \in Ids(orders) : cancel_sales_order(so)
    \/ \E inv \in Ids(invoices) : void_invoice(inv)

SpecInvoices == InitInvoices /\ [][NextInvoices]_vars

\* Lookups: every handler, on a store of at most one row per table, with
\* requests that also name an identity that is not stored and an
\* acknowledgement action that is not known.
InitLookup ==
    /\ EmptyStore
    /\ lim = [items |-> 1, suppliers |-> 1, clients |-> 1, pos |-> 1, acks |-> 1,
              quotes |-> 1, orders |-> 1, deliveries |-> 1, requests |-> 0, unknown |-> 1]

NextLookup ==
    \/ create_inventory_item(3)
    \/ \E i \in Ids(items), t \in {"increase", "decrease"}, q \in AdjustQtys :
          adjust_inventory_item(i, t, q)
    \/ create_supplier
    \/ \E s \in Ids(suppliers), i \in Ids(items), q \in POQtys, p \in POPrices :
          create_po(s, i, q, p)
    \/ \E po \in Ids(pos), a \in AckActions, p \in AckPrices :
          acknowledge_po(po, a, p)
    \/ \E po \in Ids(pos) : receive_po(po)
    \/ \E po \in Ids(pos) : create_bill(po)
    \/ \E b \in Ids(bills) : pay_bill(b, "ref")
    \/ create_client
    \/ \E c \in Ids(clients), i \in Ids(items), q \in QuoteQtys, p \in QuotePrices :
          create_quote(c, i, q, p)
    \/ \E qt \in Ids(quotes), p \in RevisedPrices : revise_quote(qt, p)
    \/ \E qt \in Ids(quotes) : accept_quote(qt)
    \/ \E c \in Ids(clients), i \in Ids(items), q \in OrderQtys, p \in OrderPrices :
          create_sales_order(c, i, q, p)
    \/ \E so \in Ids(orders), q \in DeliverQtys : deliver_sales_order(so, q)
    \/ \E so \in Ids(orders) : cancel_sales_order(so)
    \/ \E inv \in Ids(invoices) : void_invoice(inv)

SpecLookup == InitLookup /\ [][NextLookup]_vars

\* Concurrent requests on a store that the handlers have filled: an item
\* created with 3 units, a PO acknowledged, a PO pending, a PO received
\* and billed, an open quote and a confirmed order of 2.
ConcurrentStore ==
    /\ items = <<[item_qty |-> 3]>>
    /\ suppliers = <<[account_balance |-> 6]>>
    /\ pos = <<[supplier_id |-> 1, item_id |-> 1, qty_ordered |-> 2,
                final_price_per_item |-> 3, po_status |-> "acknowledged"],
               [supplier_id |-> 1, item_id |-> 1, qty_ordered |-> 2,
                final_price_per_item |-> 4, po_status |-> "pending_price_negotiation"],
               [supplier_id |-> 1, item_id |-> 1, qty_ordered |-> 2,
                final_price_per_item |-> 3, po_status |-> "received"]>>
    /\ acks = <<[po_id |-> 1, final_price_per_item |-> 3, status |-> "accepted",
                 is_final |-> TRUE, version |-> 1],
                [po_id |-> 3, final_price_per_item |-> 3, status |-> "accepted",
                 is_final |-> TRUE, version |-> 1]>>
    /\ inbound = <<[po_id |-> 1, status |-> "in_transit"],
                   [po_id |-> 3, status |-> "in_transit"],
                   [po_id |-> 3, status |-> "received"]>>
    /\ bills = <<[po_id |-> 3, ack_id |-> 2, payment_status |-> "pending",
                  payment_reference |-> "None"]>>
    /\ clients = <<[account_balance |-> 4]>>
    /\ quotes = <<[client_id |-> 1, item_id |-> 1, order_qty |-> 2,
                   final_price_per_item |-> 2, status |-> "sent", version |-> 1,
                   is_final |-> FALSE, superseded_by |-> NoId, root |-> 1]>>
    /\ orders = <<[client_id |-> 1, quote_id |-> NoId, item_id |-> 1,
                   qty_ordered |-> 2, final_price_per_item |-> 2,
                   order_status |-> "confirmed", invoice_id |-> 1]>>
    /\ invoices = <<[so_id |-> 1, quote_id |-> NoId, payment_status |-> "pending",
                     voided |-> FALSE]>>
    /\ outbound = <<>>
    /\ resp = 200
    /\ txs = <<>>

InitConcurrent ==
    /\ ConcurrentStore
    /\ lim = [items |-> 1, suppliers |-> 1, clients |-> 1, pos |-> 3, acks |-> 4,
              quotes |-> 1, orders |-> 3, deliveries |-> 2,
              requests |-> ConcMaxRequests, unknown |-> 0]

NextConcurrent ==
    \/ \E i \in Ids(items), t \in {"increase", "decrease"}, q \in AdjustQtys :
          request("adjust_inventory_item", i, t, q)
    \/ \E po \in Ids(pos) : request("receive_po", po, "", 0)
    \/ \E po \in Ids(pos), p \in AckPrices \ {NoPrice} :
          request("acknowledge_po", po, "accepted", p)
    \/ \E b \in Ids(bills) : request("pay_bill", b, "ref", 0)
    \/ \E i \in Ids(items), q \in OrderQtys : request("create_sales_order", i, "", q)
    \/ \E qt \in Ids(quotes) : request("accept_quote", qt, "", 0)
    \/ \E so \in Ids(orders), q \in DeliverQtys :
          request("deliver_sales_order", so, "", q)
    \/ \E so \in Ids(orders) : request("cancel_sales_order", so, "", 0)
    \/ \E r \in 1..Len(txs) : tx_read(r)
    \/ \E r \in 1..Len(txs) : tx_check(r)
    \/ \E r \in 1..Len(txs) : tx_write(r)
    \/ \E r \in 1..Len(txs) : tx_abort(r)

SpecConcurrent == InitConcurrent /\ [][NextConcurrent]_vars

\* The stock ledger: the handlers that write item_qty, from a store that
\* create_inventory_item, create_supplier, create_po, acknowledge_po
\* (accepted), create_client and create_quote have filled with one row each.
SeededStore ==
    /\ \E q \in InitQtys : items = <<[item_qty |-> q]>>
    /\ suppliers = <<[account_balance |-> 0]>>
    /\ \E q \in POQtys, p \in AckPrices :
         /\ pos = <<[supplier_id |-> 1, item_id |-> 1, qty_ordered |-> q,
                     final_price_per_item |-> p, po_status |-> "acknowledged"]>>
         /\ acks = <<[po_id |-> 1, final_price_per_item |-> p,
                      status |-> "accepted", is_final |-> TRUE, version |-> 1]>>
    /\ inbound = <<[po_id |-> 1, status |-> "in_transit"]>>
    /\ bills = <<>>
    /\ clients = <<[account_balance |-> 0]>>
    /\ \E q \in QuoteQtys, p \in QuotePrices :
         quotes = <<[client_id |-> 1, item_id |-> 1, order_qty |-> q,
                     final_price_per_item |-> p, status |-> "sent", version |-> 1,
                     is_final |-> FALSE, superseded_by |-> NoId, root |-> 1]>>
    /\ orders = <<>> /\ outbound = <<>> /\ invoices = <<>>
    /\ resp = 200
    /\ txs = <<>>

InitStock ==
    /\ SeededStore
    /\ lim = [items |-> 1, suppliers |-> 1, clients |-> 1, pos |-> 1, acks |-> 1,
              quotes |-> 1, orders |-> StockMaxOrders,
              deliveries |-> 0, requests |-> 0, unknown |-> 0]

NextStock ==
    \/ \E i \in Ids(items), t \in {"increase", "decrease"}, q \in AdjustQtys :
          adjust_inventory_item(i, t, q)
    \/ \E po \in Ids(pos) : receive_po(po)
    \/ \E qt \in Ids(quotes) : accept_quote(qt)
    \/ \E c \in Ids(clients), i \in Ids(items), q \in OrderQtys, p \in OrderPrices :
          create_sales_order(c, i, q, p)
    \/ \E so \in Ids(orders) : cancel_sales_order(so)

SpecStock == InitStock /\ [][NextStock]_vars

\* ================================================================ claims
\* Rows of a table, and sums over them, as the claims read them.
Rows(table) == 1..Len(table)

RECURSIVE SumSeq(_, _)
SumSeq(f, n) == IF n = 0 THEN 0 ELSE f[n] + SumSeq(f, n - 1)

DeliveredSum(so_id) ==
    SumSeq([n \in Rows(outbound) |->
               IF outbound[n].so_id = so_id THEN outbound[n].delivered_qty ELSE 0],
           Len(outbound))

\* C1: in every state reachable by inventory adjust, PO receive, direct
\* sales-order create, quote accept and sales-order cancel, every StockItem's
\* on-hand quantity is >= 0.
C1_StockNeverNegative == \A i \in Rows(items) : items[i].item_qty >= 0

\* C1 witness: stock has been taken down to exactly 0 after the PO was
\* received, the quote accepted and an order cancelled.
C1_Witness ==
    /\ items[1].item_qty = 0
    /\ pos[1].po_status = "received"
    /\ quotes[1].is_final
    /\ \E so \in Rows(orders) : orders[so].order_status = "cancelled"

\* C2: for every PurchaseOrder at most one Acknowledgement has is_final = true,
\* and when one does it has status accepted and the highest version among the
\* PO's Acknowledgements.
C2_OneFinalAck ==
    \A p \in Rows(pos) :
        LET mine == {i \in Rows(acks) : acks[i].po_id = p}
            final == {i \in mine : acks[i].is_final}
        IN /\ Cardinality(final) <= 1
           /\ \A f \in final :
                /\ acks[f].status = "accepted"
                /\ \A i \in mine : acks[i].version <= acks[f].version

\* C2 witness: a PO whose final Acknowledgement followed an earlier proposal.
C2_Witness ==
    \E p \in Rows(pos) : \E i, f \in Rows(acks) :
        /\ acks[i].po_id = p /\ acks[f].po_id = p
        /\ i < f /\ acks[f].is_final /\ ~acks[i].is_final

\* C3: at most one quote of a negotiation (a quote made by create_quote and
\* every quote derived from it by revise) has is_final = true.
C3_OneFinalQuote ==
    \A r \in Rows(quotes) :
        Cardinality({i \in Rows(quotes) : quotes[i].root = r /\ quotes[i].is_final}) <= 1

\* C4: for every SalesOrder the delivered quantities sum to at most
\* qty_ordered; the status is delivered iff the sum equals qty_ordered and
\* partially_delivered iff 0 < sum < qty_ordered.
C4_DeliveredWithinOrder ==
    \A so \in Rows(orders) :
        LET total == DeliveredSum(so)
            qty == orders[so].qty_ordered
        IN /\ total <= qty
           /\ (orders[so].order_status = "delivered") <=> (total = qty)
           /\ (orders[so].order_status = "partially_delivered")
                 <=> (0 < total /\ total < qty)

\* C4 witness: one order delivered in two parts, another delivered in part.
C4_Witness ==
    \E a, b \in Rows(orders) :
        /\ orders[a].order_status = "delivered"
        /\ Cardinality({n \in Rows(outbound) : outbound[n].so_id = a}) = 2
        /\ orders[b].order_status = "partially_delivered"

\* C5: once a PO has been received, a bill created for a PO, or a bill paid,
\* the same request made again answers 400 and leaves every table (stock,
\* supplier balance, PO status, deliveries, bills) as it was.
C5_NoSecondTime ==
    [][(\/ \E p \in Rows(pos) : pos[p].po_status = "received" /\ receive_po(p)
        \/ \E p \in Rows(pos) :
              (\E b \in Rows(bills) : bills[b].po_id = p) /\ create_bill(p)
        \/ \E b \in Rows(bills) :
              bills[b].payment_status = "paid" /\ pay_bill(b, "ref"))
          => (resp' = 400 /\ UNCHANGED tables)]_vars

\* C5 witness: a request was refused with 400 on a store whose every PO is
\* received, billed and paid.
C5_Witness ==
    /\ resp = 400
    /\ pos # <<>>
    /\ \A p \in Rows(pos) :
         /\ pos[p].po_status = "received"
         /\ \E b \in Rows(bills) : bills[b].po_id = p /\ bills[b].payment_status = "paid"

\* C6: every Bill belongs to a PO whose status is received, a PO has at most
\* one Bill, and the Bill's ack_id is the one Acknowledgement of that PO with
\* is_final = true.
C6_BillOfReceivedPO ==
    \A b \in Rows(bills) :
        LET p == bills[b].po_id IN
        /\ pos[p].po_status = "received"
        /\ \A c \in Rows(bills) : bills[c].po_id = p => c = b
        /\ {i \in Rows(acks) : acks[i].po_id = p /\ acks[i].is_final} = {bills[b].ack_id}

\* C6 witness: a Bill of a PO that was negotiated over two Acknowledgements.
C6_Witness ==
    \E b \in Rows(bills) :
        Cardinality({i \in Rows(acks) : acks[i].po_id = bills[b].po_id}) = 2

\* C7: accepting a quote whose order quantity exceeds the item's stock answers
\* 400 and changes no table: no SalesOrder, no Invoice, stock, client balance
\* and every quote as before.
C7_InsufficientInventory ==
    [][\A q \in Rows(quotes) :
          (items[quotes[q].item_id].item_qty < quotes[q].order_qty /\ accept_quote(q))
             => (resp' = 400 /\ UNCHANGED tables)]_vars

\* C7 witness: a 400 on a store where no quote is final or accepted, so that
\* neither revise nor the already-accepted guards can have answered it: the
\* refusal is the inventory check of accept_quote.
C7_Witness ==
    /\ resp = 400
    /\ quotes # <<>>
    /\ orders = <<>>
    /\ \A q \in Rows(quotes) : ~quotes[q].is_final /\ quotes[q].status # "accepted"

\* C8: an adjustment by a positive quantity sets the item's quantity to
\* current + signed delta when that is >= 0, and otherwise answers 400 and
\* leaves the quantity (and every table) unchanged.
C8_AdjustExactOrRejected ==
    [][\A i \in Rows(items), q \in AdjustQtys :
          /\ adjust_inventory_item(i, "increase", q)
               => (items'[i].item_qty = items[i].item_qty + q /\ resp' = 200)
          /\ adjust_inventory_item(i, "decrease", q)
               => IF items[i].item_qty - q >= 0
                  THEN items'[i].item_qty = items[i].item_qty - q /\ resp' = 200
                  ELSE resp' = 400 /\ UNCHANGED tables]_vars

\* C8 witness: a 400 on a store holding 2 of the item, an acknowledged PO, an
\* open quote and no order: receive, accept and create order would all have
\* succeeded there, so the refusal is a decrease by 3.
C8_Witness ==
    /\ resp = 400
    /\ items[1].item_qty = 2
    /\ pos[1].po_status = "acknowledged"
    /\ ~quotes[1].is_final
    /\ orders = <<>>

\* C9: for every PurchaseOrder at most one Acknowledgement is active, i.e.
\* has a status other than superseded.
C9_OneActiveAck ==
    \A p \in Rows(pos) :
        Cardinality({i \in Rows(acks) :
                        acks[i].po_id = p /\ acks[i].status # "superseded"}) <= 1

\* C10: the k-th Acknowledgement created for a PO has version k, and no
\* Acknowledgement is ever deleted or renumbered.
C10_VersionIsRank ==
    \A i \in Rows(acks) :
        acks[i].version =
            Cardinality({j \in 1..i : acks[j].po_id = acks[i].po_id})

C10_AcksKept ==
    /\ Len(acks') >= Len(acks)
    /\ \A i \in Rows(acks) :
         acks'[i].po_id = acks[i].po_id /\ acks'[i].version = acks[i].version

C10_VersionsIncrease == [](C10_VersionIsRank) /\ [][C10_AcksKept]_vars

\* C10 witness: a PO with Acknowledgements of versions 1 and 2.
C10_Witness ==
    \E i, j \in Rows(acks) :
        /\ acks[i].po_id = acks[j].po_id
        /\ acks[i].version = 1 /\ acks[j].version = 2

\* C11: within a negotiation (the quotes sharing a root) versions strictly
\* increase in creation order, so no two of its quotes share a version.
C11_QuoteVersionsIncrease ==
    \A i, j \in Rows(quotes) :
        (i < j /\ quotes[i].root = quotes[j].root)
            => quotes[i].version < quotes[j].version

\* C12: acknowledge on a PO that is not in pending_price_negotiation answers
\* 400 and changes no table.  On a pending PO, accepted sets the PO's price
\* to the proposal's, moves it to acknowledged and leaves it with exactly one
\* DeliveryInbound, in_transit; rejected and revised leave the PO row and the
\* deliveries as they were.
C12_AcknowledgeTransitions ==
    [][\A p \in Rows(pos), a \in {"accepted", "rejected", "revised"},
          pr \in AckPrices :
          acknowledge_po(p, a, pr) =>
             IF pos[p].po_status # "pending_price_negotiation"
             THEN resp' = 400 /\ UNCHANGED tables
             ELSE IF a = "accepted"
             THEN /\ pos'[p].final_price_per_item = pr
                  /\ pos'[p].po_status = "acknowledged"
                  /\ \E d \in Rows(inbound') :
                        /\ inbound'[d] = [po_id |-> p, status |-> "in_transit"]
                        /\ \A e \in Rows(inbound') : inbound'[e].po_id = p => e = d
                  /\ Len(acks') = Len(acks) + 1
             ELSE /\ pos' = pos
                  /\ pos[p].po_status = "pending_price_negotiation"
                  /\ inbound' = inbound
                  /\ Len(acks') = Len(acks) + 1]_vars

\* C12 witness: one PO acknowledged at the accepted price with its delivery
\* in transit, another still pending at its expected price after a rejection.
C12_Witness ==
    \E p, q \in Rows(pos) :
        /\ pos[p].po_status = "acknowledged"
        /\ pos[p].final_price_per_item = 3
        /\ \E d \in Rows(inbound) : inbound[d].po_id = p
        /\ pos[q].po_status = "pending_price_negotiation"
        /\ pos[q].final_price_per_item = 4
        /\ \E i \in Rows(acks) : acks[i].po_id = q /\ acks[i].status = "rejected"

\* C13: receive on a PO that is not acknowledged answers 400 and changes no
\* table; on an acknowledged PO it adds exactly qty_ordered to the PO's item,
\* moves the PO to received and changes no other StockItem and no other PO.
C13_ReceiveTransitions ==
    [][\A p \in Rows(pos) :
          receive_po(p) =>
             IF pos[p].po_status # "acknowledged"
             THEN resp' = 400 /\ UNCHANGED tables
             ELSE /\ resp' = 200
                  /\ items' = [items EXCEPT ![pos[p].item_id].item_qty =
                                   @ + pos[p].qty_ordered]
                  /\ pos' = [pos EXCEPT ![p].po_status = "received"]]_vars

\* C13 witness: two items, the PO of one received and the PO of the other
\* still acknowledged, and a request just refused.
C13_Witness ==
    /\ Len(items) = 2
    /\ resp = 400
    /\ \E p, q \in Rows(pos) :
         /\ pos[p].item_id # pos[q].item_id
         /\ pos[p].po_status = "received"
         /\ items[pos[p].item_id].item_qty = pos[p].qty_ordered
         /\ pos[q].po_status = "acknowledged"
         /\ items[pos[q].item_id].item_qty = 0

\* C14: a received PO has exactly one DeliveryInbound and its status is
\* received: the record opened in_transit by the acknowledgement is the one
\* marked received, and none of the PO's deliveries is still in_transit.
C14_OneInboundReceived ==
    \A p \in Rows(pos) :
        pos[p].po_status = "received" =>
            LET mine == {d \in Rows(inbound) : inbound[d].po_id = p}
            IN /\ Cardinality(mine) = 1
               /\ \A d \in mine : inbound[d].status = "received"

\* C15: a supplier's balance is the sum, over the supplier's unpaid bills, of
\* qty_ordered * the price of the bill's Acknowledgement, so a bill created
\* and later paid nets to zero.  Create Bill adds qty_ordered * the final
\* Acknowledgement's price; Pay Bill subtracts the amount computed from the
\* bill's Acknowledgement and marks the bill paid with the payment reference.
C15_BalanceIsOpenBills ==
    \A s \in Rows(suppliers) :
        suppliers[s].account_balance =
            SumSeq([b \in Rows(bills) |->
                       IF /\ pos[bills[b].po_id].supplier_id = s
                          /\ bills[b].payment_status # "paid"
                       THEN pos[bills[b].po_id].qty_ordered
                               * acks[bills[b].ack_id].final_price_per_item
                       ELSE 0],
                   Len(bills))

C15_BillSteps ==
    /\ \A p \in Rows(pos) :
         (create_bill(p) /\ bills' # bills) =>
            \E f \in Rows(acks) :
               /\ acks[f].po_id = p /\ acks[f].is_final
               /\ suppliers'[pos[p].supplier_id].account_balance =
                     suppliers[pos[p].supplier_id].account_balance
                        + pos[p].qty_ordered * acks[f].final_price_per_item
    /\ \A b \in Rows(bills) :
         (pay_bill(b, "ref") /\ bills' # bills) =>
            LET po == pos[bills[b].po_id] IN
            /\ suppliers'[po.supplier_id].account_balance =
                  suppliers[po.supplier_id].account_balance
                     - po.qty_ordered * acks[bills[b].ack_id].final_price_per_item
            /\ bills'[b].payment_status = "paid"
            /\ bills'[b].payment_reference = "ref"

C15_BillThenPayNetZero == [](C15_BalanceIsOpenBills) /\ [][C15_BillSteps]_vars

\* C15 witness: one bill of 2 * 3 created and paid, a second one still
\* unpaid: the supplier is owed 6, not 12.
C15_Witness ==
    \E a, b \in Rows(bills) :
        /\ bills[a].payment_status = "paid"
        /\ bills[b].payment_status = "pending"
        /\ suppliers[1].account_balance = 6

\* C16: revise of a quote that is final, or whose negotiation already has a
\* quote accepted as final, answers 400, creates no quote and changes none.
C16_ReviseRefusedOnceFinal ==
    [][\A q \in Rows(quotes), p \in RevisedPrices :
          (/\ \E f \in Rows(quotes) :
                 quotes[f].root = quotes[q].root /\ quotes[f].is_final
           /\ revise_quote(q, p))
             => (resp' = 400 /\ UNCHANGED tables)]_vars

\* C17: a revise that succeeds marks the old quote superseded with its
\* superseded_by naming the new quote; the new quote has version
\* old.version + 1, the old quote's client, item and order quantity, the
\* revised price, is_final = false and no forward pointer.
C17_ReviseLinksForward ==
    [][\A q \in Rows(quotes), p \in RevisedPrices :
          (revise_quote(q, p) /\ resp' = 200) =>
             LET n == Len(quotes) + 1 IN
             /\ Len(quotes') = n
             /\ quotes'[q].status = "superseded"
             /\ quotes'[q].superseded_by = n
             /\ quotes'[n].version = quotes[q].version + 1
             /\ quotes'[n].client_id = quotes[q].client_id
             /\ quotes'[n].item_id = quotes[q].item_id
             /\ quotes'[n].order_qty = quotes[q].order_qty
             /\ quotes'[n].final_price_per_item = p
             /\ quotes'[n].is_final = FALSE
             /\ quotes'[n].superseded_by = NoId]_vars

\* C18: accept of a quote that is accepted or final answers 400 and changes
\* no table; an accept that succeeds makes the target accepted and final,
\* gives status superseded to every other non-final quote of the target's
\* client and item, and leaves every other quote as it was.
C18_AcceptSupersedesOthers ==
    [][\A q \in Rows(quotes) :
          accept_quote(q) =>
             IF quotes[q].status = "accepted" \/ quotes[q].is_final
             THEN resp' = 400 /\ UNCHANGED tables
             ELSE resp' = 200 =>
                  /\ Len(quotes') = Len(quotes)
                  /\ quotes'[q] = [quotes[q] EXCEPT !.status = "accepted",
                                                    !.is_final = TRUE]
                  /\ \A i \in Rows(quotes) \ {q} :
                       IF /\ quotes[i].client_id = quotes[q].client_id
                          /\ quotes[i].item_id = quotes[q].item_id
                          /\ ~quotes[i].is_final
                       THEN quotes'[i] = [quotes[i] EXCEPT !.status = "superseded"]
                       ELSE quotes'[i] = quotes[i]]_vars

\* C18 witness: an accepted quote, another quote of the same item superseded
\* by the acceptance, and a quote of the other item still as it was sent.
C18_Witness ==
    \E a, b, c \in Rows(quotes) :
        /\ quotes[a].is_final /\ quotes[a].status = "accepted"
        /\ quotes[b].item_id = quotes[a].item_id
        /\ quotes[b].root # quotes[a].root
        /\ quotes[b].status = "superseded"
        /\ quotes[c].item_id # quotes[a].item_id
        /\ quotes[c].status = "sent"

\* The effect the spec gives both confirmation paths, for client c, item i,
\* quantity q and price p.
C19_Confirmed(c, i, q, p) ==
    LET so == Len(orders) + 1
        inv == Len(invoices) + 1
    IN /\ resp' = 200
       /\ items' = [items EXCEPT ![i].item_qty = @ - q]
       /\ Len(orders') = so /\ SubSeq(orders', 1, Len(orders)) = orders
       /\ orders'[so].client_id = c /\ orders'[so].item_id = i
       /\ orders'[so].qty_ordered = q /\ orders'[so].final_price_per_item = p
       /\ orders'[so].order_status = "confirmed"
       /\ orders'[so].invoice_id = inv
       /\ Len(invoices') = inv /\ SubSeq(invoices', 1, Len(invoices)) = invoices
       /\ invoices'[inv].so_id = so
       /\ invoices'[inv].payment_status = "pending"
       /\ invoices'[inv].voided = FALSE
       /\ clients' = [clients EXCEPT ![c].account_balance = @ + q * p]

\* C19: accepting an open quote and creating a direct order, for the same
\* client, item, quantity q and price p, both answer 400 with no table
\* changed exactly when stock < q, and otherwise both take q from the item's
\* stock, store one confirmed SalesOrder and the one pending, unvoided
\* Invoice it references, and add q * p to the client's balance.
C19_SameConfirmation ==
    [][/\ \A qt \in Rows(quotes) :
            (~(quotes[qt].status = "accepted" \/ quotes[qt].is_final)
               /\ accept_quote(qt)) =>
               IF items[quotes[qt].item_id].item_qty < quotes[qt].order_qty
               THEN resp' = 400 /\ UNCHANGED tables
               ELSE C19_Confirmed(quotes[qt].client_id, quotes[qt].item_id,
                                  quotes[qt].order_qty,
                                  quotes[qt].final_price_per_item)
       /\ \A c \in Rows(clients), i \in Rows(items),
             q \in OrderQtys, p \in OrderPrices :
            create_sales_order(c, i, q, p) =>
               IF items[i].item_qty < q
               THEN resp' = 400 /\ UNCHANGED tables
               ELSE C19_Confirmed(c, i, q, p)]_vars

\* C19 witness: two orders of the same quantity and price, one confirmed from
\* the quote and one created directly, each with its own invoice, and the
\* client charged for both.
C19_Witness ==
    \E a, b \in Rows(orders) :
        /\ orders[a].quote_id # NoId /\ orders[b].quote_id = NoId
        /\ orders[a].qty_ordered = orders[b].qty_ordered
        /\ orders[a].final_price_per_item = orders[b].final_price_per_item
        /\ orders[a].invoice_id # orders[b].invoice_id
        /\ clients[1].account_balance =
              2 * orders[a].qty_ordered * orders[a].final_price_per_item

\* C20: cancel of a delivered or partially delivered order answers 400 and
\* changes no table; any other cancel sets the order's status to cancelled
\* and adds exactly the order's qty_ordered to its item's stock.
C20_CancelReleases ==
    [][\A so \in Rows(orders) :
          cancel_sales_order(so) =>
             IF orders[so].order_status \in {"delivered", "partially_delivered"}
             THEN resp' = 400 /\ UNCHANGED tables
             ELSE /\ resp' = 200
                  /\ orders' = [orders EXCEPT ![so].order_status = "cancelled"]
                  /\ items' = [items EXCEPT ![orders[so].item_id].item_qty =
                                   @ + orders[so].qty_ordered]]_vars

\* C20 witness: two orders of 2 on two items: one cancelled with its units
\* back in stock, one delivered in part and still reserved, and a request
\* just refused.
C20_Witness ==
    /\ resp = 400
    /\ Len(orders) = 2
    /\ \E a, b \in Rows(orders) :
         /\ orders[a].order_status = "cancelled" /\ orders[a].qty_ordered = 2
         /\ orders[b].order_status = "partially_delivered"
         /\ orders[b].qty_ordered = 2
         /\ orders[a].item_id # orders[b].item_id
         /\ items[orders[a].item_id].item_qty = 3
         /\ items[orders[b].item_id].item_qty = 1

\* C21: void of a paid invoice answers 400 and changes no table; any other
\* void sets voided = true and payment status voided, so an invoice is voided
\* iff its payment status is voided, and a void of a voided invoice leaves
\* every table as it was.
C21_VoidedIffStatus ==
    \A inv \in Rows(invoices) :
        invoices[inv].voided <=> (invoices[inv].payment_status = "voided")

C21_VoidSteps ==
    \A inv \in Rows(invoices) :
        void_invoice(inv) =>
           IF invoices[inv].payment_status = "paid"
           THEN resp' = 400 /\ UNCHANGED tables
           ELSE /\ resp' = 200
                /\ invoices' = [invoices EXCEPT ![inv].voided = TRUE,
                                                ![inv].payment_status = "voided"]
                /\ invoices[inv].voided => UNCHANGED tables

C21_VoidInvoice == [](C21_VoidedIffStatus) /\ [][C21_VoidSteps]_vars

\* C21 witness: an invoice voided and another still pending.
C21_Witness ==
    \E a, b \in Rows(invoices) :
        /\ invoices[a].voided /\ invoices[a].payment_status = "voided"
        /\ ~invoices[b].voided /\ invoices[b].payment_status = "pending"

\* The identity no row of the table has.
C22_Missing(table) == Len(table) + 1

\* C22: a request that names an identity that is not stored answers 404,
\* the supplier and item of create_po and the item of create_sales_order
\* included; a request on a stored row that violates the state guard of its
\* handler answers 400.
C22_NotFound ==
    /\ \A t \in {"increase", "decrease"}, q \in AdjustQtys :
         adjust_inventory_item(C22_Missing(items), t, q) => resp' = 404
    /\ \A s \in Ids(suppliers), i \in Ids(items), q \in POQtys, p \in POPrices :
         (create_po(s, i, q, p)
             /\ (s = C22_Missing(suppliers) \/ i = C22_Missing(items)))
            => resp' = 404
    /\ \A a \in AckActions, p \in AckPrices :
         acknowledge_po(C22_Missing(pos), a, p) => resp' = 404
    /\ receive_po(C22_Missing(pos)) => resp' = 404
    /\ create_bill(C22_Missing(pos)) => resp' = 404
    /\ pay_bill(C22_Missing(bills), "ref") => resp' = 404
    /\ \A p \in RevisedPrices : revise_quote(C22_Missing(quotes), p) => resp' = 404
    /\ accept_quote(C22_Missing(quotes)) => resp' = 404
    /\ \A c \in Rows(clients), q \in OrderQtys, p \in OrderPrices :
         create_sales_order(c, C22_Missing(items), q, p) => resp' = 404
    /\ \A q \in DeliverQtys :
         deliver_sales_order(C22_Missing(orders), q) => resp' = 404
    /\ cancel_sales_order(C22_Missing(orders)) => resp' = 404
    /\ void_invoice(C22_Missing(invoices)) => resp' = 404

C22_GuardViolated ==
    /\ \A po \in Rows(pos), a \in AckActions, p \in AckPrices :
         (pos[po].po_status # "pending_price_negotiation"
             /\ acknowledge_po(po, a, p)) => resp' = 400
    /\ \A po \in Rows(pos) :
         (pos[po].po_status # "acknowledged" /\ receive_po(po)) => resp' = 400
    /\ \A po \in Rows(pos) :
         (pos[po].po_status # "received" /\ create_bill(po)) => resp' = 400
    /\ \A b \in Rows(bills) :
         (bills[b].payment_status = "paid" /\ pay_bill(b, "ref")) => resp' = 400
    /\ \A qt \in Rows(quotes), p \in RevisedPrices :
         (quotes[qt].is_final /\ revise_quote(qt, p)) => resp' = 400
    /\ \A qt \in Rows(quotes) :
         (quotes[qt].is_final /\ accept_quote(qt)) => resp' = 400
    /\ \A so \in Rows(orders), q \in DeliverQtys :
         (orders[so].order_status \in {"cancelled", "delivered"}
             /\ deliver_sales_order(so, q)) => resp' = 400
    /\ \A so \in Rows(orders) :
         (orders[so].order_status \in {"delivered", "partially_delivered"}
             /\ cancel_sales_order(so)) => resp' = 400

C22_LookupsAnswer404 == [][C22_NotFound /\ C22_GuardViolated]_vars

\* C23: a request that is answered with an error (404, 400 or 500) leaves
\* every table as it was before the request.
C23_ErrorsPersistNothing ==
    [][resp' \in {400, 404, 500} => UNCHANGED tables]_vars

\* The change of the item's quantity that a request asks for.
C24_Delta(tx) ==
    CASE tx.op = "adjust_inventory_item" ->
            (IF tx.arg = "increase" THEN tx.qty ELSE -tx.qty)
      [] tx.op = "receive_po" -> pos[tx.target].qty_ordered
      [] tx.op = "create_sales_order" -> -tx.qty
      [] tx.op = "accept_quote" -> -quotes[tx.target].order_qty
      [] tx.op = "cancel_sales_order" -> orders[tx.target].qty_ordered
      [] OTHER -> 0

C24_AllDone == txs # <<>> /\ \A r \in Rows(txs) : txs[r].pc = "done"

\* once every request has been answered, the item holds the 3 units it had
\* plus the deltas of the requests that succeeded
C24_NoUpdateLost ==
    C24_AllDone =>
        items[1].item_qty =
            3 + SumSeq([r \in Rows(txs) |->
                           IF txs[r].resp = 200 THEN C24_Delta(txs[r]) ELSE 0],
                       Len(txs))

\* a reservation that commits takes no more than the item holds then
C24_ReservedOnHand ==
    \A r \in Rows(txs) :
        (tx_write(r) /\ txs[r].op \in {"create_sales_order", "accept_quote"})
           => items[1].item_qty + C24_Delta(txs[r]) >= 0

\* C24: when stock-mutating requests on one StockItem run concurrently, each
\* reading, checking and writing in separate steps, no update is lost (the
\* final quantity is the starting quantity plus the deltas of the successful
\* requests) and no reservation succeeds for more stock than is on hand.
C24_NoLostUpdate == [](C24_NoUpdateLost) /\ [][C24_ReservedOnHand]_vars

\* C25: when requests for the same guarded transition run concurrently, a PO
\* gets at most one received DeliveryInbound and one successful receive, at
\* most one final Acknowledgement and no two Acknowledgements of one version,
\* a Bill at most one successful payment, and the deliveries of a SalesOrder
\* never sum to more than qty_ordered.
C25_NoStaleTransition ==
    /\ \A p \in Rows(pos) :
         /\ Cardinality({d \in Rows(inbound) :
                inbound[d].po_id = p /\ inbound[d].status = "received"}) <= 1
         /\ Cardinality({r \in Rows(txs) :
                /\ txs[r].op = "receive_po" /\ txs[r].target = p
                /\ txs[r].resp = 200}) <= 1
         /\ Cardinality({i \in Rows(acks) : acks[i].po_id = p /\ acks[i].is_final}) <= 1
         /\ \A i, j \in Rows(acks) :
              (acks[i].po_id = p /\ acks[j].po_id = p /\ i # j)
                 => acks[i].version # acks[j].version
    /\ \A b \in Rows(bills) :
         Cardinality({r \in Rows(txs) :
            /\ txs[r].op = "pay_bill" /\ txs[r].target = b
            /\ txs[r].resp = 200}) <= 1
    /\ \A so \in Rows(orders) : DeliveredSum(so) <= orders[so].qty_ordered

\* what the purchase orders ps and the sales orders os account for of item i:
\* the received purchases less the orders not cancelled
C26_Net(ps, os, i) ==
    SumSeq([p \in Rows(ps) |->
               IF ps[p].item_id = i /\ ps[p].po_status = "received"
               THEN ps[p].qty_ordered ELSE 0], Len(ps))
    - SumSeq([so \in Rows(os) |->
                 IF os[so].item_id = i /\ os[so].order_status # "cancelled"
                 THEN os[so].qty_ordered ELSE 0], Len(os))

\* C26: stock conservation: apart from adjustments, every step changes a
\* StockItem's quantity by exactly the change in the received purchase orders
\* less the sales orders not cancelled, so that the quantity is always the
\* initial quantity plus the net adjustments plus the received POs minus the
\* live orders, and a reservation is released back to stock at most once.
C26_StockConserved ==
    [][\A i \in Rows(items) :
          \/ items'[i].item_qty - items[i].item_qty
                = C26_Net(pos', orders', i) - C26_Net(pos, orders, i)
          \/ \E t \in {"increase", "decrease"}, q \in AdjustQtys :
                adjust_inventory_item(i, t, q)]_vars

\* the moves of a sales order's status
C27_Moves ==
    {<<"confirmed", "partially_delivered">>, <<"confirmed", "delivered">>,
     <<"partially_delivered", "delivered">>, <<"confirmed", "cancelled">>}

\* C27: delivered and cancelled are terminal: a deliver or cancel on an order
\* in one of them fails and changes no table, and a sales order's status only
\* moves confirmed -> partially_delivered -> delivered or confirmed -> cancelled.
C27_TerminalOrders ==
    [][\A so \in Rows(orders) :
          /\ orders[so].order_status \in {"delivered", "cancelled"}
                => /\ cancel_sales_order(so) => (resp' = 400 /\ UNCHANGED tables)
                   /\ \A q \in DeliverQtys :
                         deliver_sales_order(so, q)
                            => (resp' = 400 /\ UNCHANGED tables)
          /\ orders'[so].order_status # orders[so].order_status
                => <<orders[so].order_status, orders'[so].order_status>>
                      \in C27_Moves]_vars

\* the supplier's bills
C28_BillsOfSupplier(s) == {b \in Rows(bills) : pos[bills[b].po_id].supplier_id = s}

\* what the supplier's pending bills amount to
C28_Pending(s) ==
    SumSeq([b \in Rows(bills) |->
               IF b \in C28_BillsOfSupplier(s) /\ bills[b].payment_status = "pending"
               THEN pos[bills[b].po_id].qty_ordered
                       * acks[bills[b].ack_id].final_price_per_item
               ELSE 0], Len(bills))

\* C28: in every state reached by sequential operations a Supplier's balance
\* is the sum over the supplier's pending Bills of qty_ordered * the billed
\* Acknowledgement's price; it is never negative, and it is zero when every
\* bill of the supplier is paid.
C28_SupplierBalance ==
    \A s \in Rows(suppliers) :
        /\ suppliers[s].account_balance = C28_Pending(s)
        /\ suppliers[s].account_balance >= 0
        /\ (\A b \in C28_BillsOfSupplier(s) : bills[b].payment_status = "paid")
              => suppliers[s].account_balance = 0

\* C28 witness: the first supplier has a bill of 2 * 3 pending and is owed 6,
\* the second supplier's bill is paid and its balance is back to zero.
C28_Witness ==
    /\ Len(suppliers) = 2
    /\ \E a \in C28_BillsOfSupplier(1) : bills[a].payment_status = "pending"
    /\ \E b \in C28_BillsOfSupplier(2) : bills[b].payment_status = "paid"
    /\ suppliers[1].account_balance = 6
    /\ suppliers[2].account_balance = 0

\* an acknowledged or received PO carries the price of its final Acknowledgement
C29_PriceSet ==
    \A p \in Rows(pos) :
        pos[p].po_status \in {"acknowledged", "received"}
           => /\ pos[p].final_price_per_item # NoPrice
              /\ pos[p].final_price_per_item > 0
              /\ \E f \in FinalAcks(p) :
                    acks[f].final_price_per_item = pos[p].final_price_per_item

\* the first bill of a received PO is created
C29_BillComputed ==
    \A p \in Rows(pos) :
        (/\ pos[p].po_status = "received"
         /\ ~ExistingBill(p)
         /\ create_bill(p))
           => bills' # bills

\* C29: every PurchaseOrder in status acknowledged or received has a set,
\* positive final_price_per_item equal to its final Acknowledgement's price
\* (an accepted acknowledgement without a price does not finalise a PO), so
\* that a Bill for any received PO can always be computed.
C29_FinalPriceSet == [](C29_PriceSet) /\ [][C29_BillComputed]_vars

\* what was ever ordered for client c, whatever became of the orders
C30_Ordered(c) ==
    SumSeq([so \in Rows(orders) |->
               IF orders[so].client_id = c
               THEN orders[so].qty_ordered * orders[so].final_price_per_item
               ELSE 0], Len(orders))

C30_BalanceIsOrdered ==
    \A c \in Rows(clients) : clients[c].account_balance = C30_Ordered(c)

C30_Frame ==
    /\ \A so \in Rows(orders) :
         /\ cancel_sales_order(so) => UNCHANGED <<clients, invoices>>
         /\ \A q \in DeliverQtys : deliver_sales_order(so, q) => UNCHANGED clients
    /\ \A inv \in Rows(invoices) : void_invoice(inv) => UNCHANGED clients

\* C30: Cancel, Deliver and Void Invoice never change a Client's balance and
\* Cancel never changes an Invoice: in every reachable state a client's
\* balance is the sum of qty_ordered * final_price_per_item over all the
\* SalesOrders ever created for the client, whatever their status.
C30_ClientBalanceKept == [](C30_BalanceIsOrdered) /\ [][C30_Frame]_vars

\* C30 witness: the first client's order of 2 at 2 was cancelled and its
\* invoice voided, the second client's order of 1 at 2 was delivered: the
\* balances are still 4 and 2.
C30_Witness ==
    /\ Len(orders) = 2
    /\ orders[1].client_id = 1 /\ orders[1].order_status = "cancelled"
    /\ invoices[orders[1].invoice_id].voided
    /\ orders[2].client_id = 2 /\ orders[2].order_status = "delivered"
    /\ clients[1].account_balance = 4
    /\ clients[2].account_balance = 2

====
